---- MODULE Spec2Model ----
(***************************************************************************)
(* Render/physics timing harness of Isaac Lab                              *)
(* (test/envs/test_env_rendering_logic.py) together with the stepping loop *)
(* of the environments it drives, and the DeformableObjectCfg binding.     *)
(*                                                                         *)
(* Time is counted in milliseconds, so the simulation timestep dt = 0.005 s*)
(* is the integer 5 and all sums of timesteps are exact.                   *)
(***************************************************************************)
EXTENDS Integers, Sequences, FiniteSets

VARIABLES
    pc,                 \* position of test_env_rendering_logic
    env_idx,            \* index into EnvTypes of the outer for loop
    ri_idx,             \* index into RenderIntervals of the inner for loop
    i,                  \* loop variable of `for i in range(50)`
    physics_time,       \* self.physics_time (ms)
    render_time,        \* self.render_time (ms)
    num_physics_steps,  \* self.num_physics_steps
    num_render_steps,   \* self.num_render_steps
    env,                \* the environment bound to the local `env` (its cfg), or NoEnv
    k,                  \* decimation loop counter inside env.step
    sim_step_counter,   \* env._sim_step_counter
    sim_render_counter, \* number of sim.render() calls made by the current environment
    render_mode,        \* env.sim.render_mode
    rtx_sensors,        \* the setting /isaaclab/render/rtx_sensors
    physics_callbacks,  \* names registered with env.sim.add_physics_callback
    render_callbacks,   \* names registered with env.sim.add_render_callback
    stage,              \* number of stages created so far (omni.usd new_stage)
    open_envs,          \* environments constructed and not yet closed
    total_env_steps,    \* env.step calls made by the whole test
    completed,          \* sub-tests that ran to env.close()
    failures,           \* sub-tests ended by a failed assertion
    log,                \* operations of the current sub-test, in order
    asset_cfg           \* the last DeformableObjectCfg constructed, with its arguments

vars == <<pc, env_idx, ri_idx, i, physics_time, render_time, num_physics_steps,
          num_render_steps, env, k, sim_step_counter, sim_render_counter,
          render_mode, rtx_sensors, physics_callbacks, render_callbacks, stage,
          open_envs, total_env_steps, completed, failures, log, asset_cfg>>

counters == <<physics_time, render_time, num_physics_steps, num_render_steps>>

simvars == <<sim_step_counter, sim_render_counter, render_mode, rtx_sensors,
             physics_callbacks, render_callbacks>>

loopvars == <<env_idx, ri_idx, i, k>>

ghosts == <<total_env_steps, completed, failures>>

----------------------------------------------------------------------------
(* Program constants *)

\* decimation: int = 4 of every EnvCfg
Decimation == 4

\* SimulationCfg(dt=0.005, ...), in milliseconds
Dt == 5

\* for i in range(50)
NumSteps == 50

\* for env_type in [...]
EnvTypes == <<"manager_based_env", "manager_based_rl_env", "direct_rl_env">>

\* for render_interval in [1, 2, 4, 8, 10]
RenderIntervals == <<1, 2, 4, 8, 10>>

\* variant: the app is launched headless without enable_cameras
app_launcher_no_cameras == [headless |-> TRUE, enable_cameras |-> FALSE]

\* AppLauncher(headless=True, enable_cameras=True)
app_launcher == [headless |-> TRUE, enable_cameras |-> TRUE]

NoEnv == [type |-> "none", decimation |-> 0, dt |-> 0, render_interval |-> 0]

----------------------------------------------------------------------------
(* Environment construction *)

create_manager_based_env(render_interval) ==
    [type |-> "manager_based_env", decimation |-> Decimation, dt |-> Dt,
     render_interval |-> render_interval]

create_manager_based_rl_env(render_interval) ==
    [type |-> "manager_based_rl_env", decimation |-> Decimation, dt |-> Dt,
     render_interval |-> render_interval]

create_direct_rl_env(render_interval) ==
    [type |-> "direct_rl_env", decimation |-> Decimation, dt |-> Dt,
     render_interval |-> render_interval]

\* Render mode the simulation context takes from the launched app: without a
\* GUI (headless) offscreen rendering is what enable_cameras turns on.
RenderModeOf(app) ==
    IF ~app.headless THEN "FULL_RENDERING"
    ELSE IF app.enable_cameras THEN "PARTIAL_RENDERING"
    ELSE "NO_GUI_OR_RENDERING"

\* sim.has_gui()
has_gui == ~app_launcher.headless

\* is_rendering = sim.has_gui() or sim.has_rtx_sensors(), read by env.step
is_rendering == has_gui \/ rtx_sensors

----------------------------------------------------------------------------
(* Configuration binding: DeformableObjectCfg(AssetBaseCfg) *)

\* largest value a constructor argument takes
MaxArg == 2

NoCfg == [kwargs |-> <<>>, fields |-> <<>>]

\* f overridden by g wherever g is defined: a subclass's fields over its
\* base's, a constructor's keyword arguments over the class defaults
Override(f, g) ==
    [x \in DOMAIN f \cup DOMAIN g |-> IF x \in DOMAIN g THEN g[x] ELSE f[x]]

\* the generic asset configuration base and its defaults
AssetBaseCfg ==
    [class_type |-> "None", prim_path |-> "MISSING", spawn |-> "None",
     init_state |-> "InitialStateCfg", collision_group |-> 0,
     debug_vis |-> FALSE]

\* variant: the subclass leaves class_type as the base declares it
DeformableObjectCfg_unbound == AssetBaseCfg

\* class DeformableObjectCfg(AssetBaseCfg): class_type: type = DeformableObject
DeformableObjectCfg == Override(AssetBaseCfg, [class_type |-> "DeformableObject"])

\* the asset classes a class_type argument may name
AssetClasses == {"DeformableObject", "RigidObject", "Articulation"}

\* keyword arguments: any subset of the fields, class_type naming an asset class
KwargSets ==
    LET others == DOMAIN DeformableObjectCfg \ {"class_type"}
        plain == UNION {[F -> 1..MaxArg] : F \in SUBSET others}
    IN plain \cup {Override(kw, [class_type |-> c]) : kw \in plain, c \in AssetClasses}

\* DeformableObjectCfg(**kwargs)
ConstructCfg(kwargs) ==
    /\ asset_cfg = NoCfg
    /\ asset_cfg' = [kwargs |-> kwargs, fields |-> Override(DeformableObjectCfg, kwargs)]
    /\ UNCHANGED <<pc, loopvars, counters, env, simvars, stage, open_envs,
                   ghosts, log>>


----------------------------------------------------------------------------
(* Callbacks of the test instance *)

\* variant: the step count is not advanced
_physics_callback_no_count(dt) ==
    /\ physics_time' = physics_time + dt
    /\ num_physics_steps' = num_physics_steps
    /\ UNCHANGED <<render_time, num_render_steps>>

\* variant: the elapsed time is not accumulated
_physics_callback_no_time(dt) ==
    /\ physics_time' = physics_time
    /\ num_physics_steps' = num_physics_steps + 1
    /\ UNCHANGED <<render_time, num_render_steps>>

_physics_callback(dt) ==
    /\ physics_time' = physics_time + dt
    /\ num_physics_steps' = num_physics_steps + 1
    /\ UNCHANGED <<render_time, num_render_steps>>

\* variant: the step count is not advanced
_render_callback_no_count(event) ==
    /\ render_time' = render_time + event.payload.dt
    /\ num_render_steps' = num_render_steps
    /\ UNCHANGED <<physics_time, num_physics_steps>>

\* variant: the physics timestep is accumulated instead of the event's dt
_render_callback_physics_dt(event) ==
    /\ render_time' = render_time + Dt
    /\ num_render_steps' = num_render_steps + 1
    /\ UNCHANGED <<physics_time, num_physics_steps>>

\* variant: the render callback advances the physics step count as well
_render_callback_both(event) ==
    /\ render_time' = render_time + event.payload.dt
    /\ num_render_steps' = num_render_steps + 1
    /\ num_physics_steps' = num_physics_steps + 1
    /\ UNCHANGED physics_time

\* variant: every render event is counted twice
_render_callback_twice(event) ==
    /\ render_time' = render_time + 2 * event.payload.dt
    /\ num_render_steps' = num_render_steps + 2
    /\ UNCHANGED <<physics_time, num_physics_steps>>

_render_callback(event) ==
    /\ render_time' = render_time + event.payload.dt
    /\ num_render_steps' = num_render_steps + 1
    /\ UNCHANGED <<physics_time, num_physics_steps>>

----------------------------------------------------------------------------
(* The test body, one action per statement *)

env_type == EnvTypes[env_idx]

cur_render_interval == RenderIntervals[ri_idx]

\* the test method is entered: no environment, no callbacks; the accumulators
\* are first assigned by ResetCounters and are not read before it
Init ==
    /\ pc = "reset"
    /\ env_idx = 1
    /\ ri_idx = 1
    /\ i = 0
    /\ physics_time = 0
    /\ render_time = 0
    /\ num_physics_steps = 0
    /\ num_render_steps = 0
    /\ env = NoEnv
    /\ k = 0
    /\ sim_step_counter = 0
    /\ sim_render_counter = 0
    /\ render_mode = "none"
    /\ rtx_sensors = FALSE
    /\ physics_callbacks = {}
    /\ render_callbacks = {}
    /\ stage = 0
    /\ open_envs = 0
    /\ total_env_steps = 0
    /\ completed = 0
    /\ failures = 0
    /\ log = <<>>
    /\ asset_cfg = NoCfg

\* variant: only the time accumulators are zeroed
ResetCounters_times_only ==
    /\ pc = "reset"
    /\ physics_time' = 0
    /\ render_time' = 0
    /\ UNCHANGED <<num_physics_steps, num_render_steps>>
    /\ log' = <<"reset">>
    /\ pc' = "new_stage"
    /\ UNCHANGED asset_cfg
    /\ UNCHANGED <<loopvars, env, simvars, stage, open_envs, ghosts>>

\* lines 124-128: the four accumulators are zeroed
ResetCounters ==
    /\ pc = "reset"
    /\ physics_time' = 0
    /\ render_time' = 0
    /\ num_physics_steps' = 0
    /\ num_render_steps' = 0
    /\ log' = <<"reset">>
    /\ pc' = "new_stage"
    /\ UNCHANGED asset_cfg
    /\ UNCHANGED <<loopvars, env, simvars, stage, open_envs, ghosts>>

\* line 131: omni.usd.get_context().new_stage()
NewStage ==
    /\ pc = "new_stage"
    /\ stage' = stage + 1
    /\ log' = Append(log, "new_stage")
    /\ pc' = "create"
    /\ UNCHANGED asset_cfg
    /\ UNCHANGED <<loopvars, counters, env, simvars, open_envs, ghosts>>

\* lines 134-139: construct the configuration and the environment
CreateEnv ==
    /\ pc = "create"
    /\ env' = IF env_type = "manager_based_env"
                THEN create_manager_based_env(cur_render_interval)
              ELSE IF env_type = "manager_based_rl_env"
                THEN create_manager_based_rl_env(cur_render_interval)
              ELSE create_direct_rl_env(cur_render_interval)
    /\ sim_step_counter' = 0
    /\ sim_render_counter' = 0
    /\ render_mode' = RenderModeOf(app_launcher)
    /\ open_envs' = open_envs + 1
    /\ log' = Append(log, "create")
    /\ pc' = "set_setting"
    /\ UNCHANGED asset_cfg
    /\ UNCHANGED <<loopvars, counters, rtx_sensors, physics_callbacks,
                   render_callbacks, stage, ghosts>>

\* line 144: env.sim.set_setting("/isaaclab/render/rtx_sensors", True)
SetSetting ==
    /\ pc = "set_setting"
    /\ rtx_sensors' = TRUE
    /\ log' = Append(log, "set_setting")
    /\ pc' = "assert_mode"
    /\ UNCHANGED asset_cfg
    /\ UNCHANGED <<loopvars, counters, env, sim_step_counter, sim_render_counter,
                   render_mode, physics_callbacks, render_callbacks, stage,
                   open_envs, ghosts>>

\* line 148: assertEqual(env.sim.render_mode, PARTIAL_RENDERING); a failed
\* assertion leaves the sub-test without reaching env.close()
AssertRenderMode ==
    /\ pc = "assert_mode"
    /\ log' = Append(log, "assert_mode")
    /\ IF render_mode = "PARTIAL_RENDERING"
         THEN pc' = "add_physics_callback" /\ failures' = failures
         ELSE pc' = "next" /\ failures' = failures + 1
    /\ UNCHANGED asset_cfg
    /\ UNCHANGED <<loopvars, counters, env, simvars, stage, open_envs,
                   total_env_steps, completed>>

\* line 151
AddPhysicsCallback ==
    /\ pc = "add_physics_callback"
    /\ physics_callbacks' = physics_callbacks \cup {"physics_step"}
    /\ log' = Append(log, "add_physics_callback")
    /\ pc' = "add_render_callback"
    /\ UNCHANGED asset_cfg
    /\ UNCHANGED <<loopvars, counters, env, sim_step_counter, sim_render_counter,
                   render_mode, rtx_sensors, render_callbacks, stage, open_envs,
                   ghosts>>

\* line 152; the for loop over range(50) starts at i = 0
AddRenderCallback ==
    /\ pc = "add_render_callback"
    /\ render_callbacks' = render_callbacks \cup {"render_step"}
    /\ log' = Append(log, "add_render_callback")
    /\ i' = 0
    /\ pc' = IF NumSteps > 0 THEN "env_step" ELSE "close"
    /\ UNCHANGED asset_cfg
    /\ UNCHANGED <<env_idx, ri_idx, k, counters, env, sim_step_counter,
                   sim_render_counter, render_mode, rtx_sensors,
                   physics_callbacks, stage, open_envs, ghosts>>

----------------------------------------------------------------------------
(* env.step(action): the decimation loop of the environment *)

\* The event a render callback receives: its payload carries the rendering
\* timestep, render_interval physics timesteps.
RenderEvent(e) == [payload |-> [dt |-> e.dt * e.render_interval]]

AfterSubstep(kk) == IF kk < env.decimation THEN "sim_step" ELSE "check"

\* line 160: env.step(action=actions) is entered
EnvStepBegin ==
    /\ pc = "env_step"
    /\ k' = 0
    /\ total_env_steps' = total_env_steps + 1
    /\ log' = Append(log, "step")
    /\ pc' = AfterSubstep(0)
    /\ UNCHANGED asset_cfg
    /\ UNCHANGED <<env_idx, ri_idx, i, counters, env, simvars, stage, open_envs,
                   completed, failures>>

\* one pass of the decimation loop: the step counter advances and
\* sim.step(render=False) fires every registered physics callback with dt
SimStep ==
    /\ pc = "sim_step"
    /\ sim_step_counter' = sim_step_counter + 1
    /\ k' = k + 1
    /\ IF "physics_step" \in physics_callbacks
         THEN _physics_callback(env.dt)
         ELSE UNCHANGED counters
    /\ pc' = "render_check"
    /\ UNCHANGED asset_cfg
    /\ UNCHANGED <<env_idx, ri_idx, i, env, sim_render_counter, render_mode,
                   rtx_sensors, physics_callbacks, render_callbacks, stage,
                   open_envs, ghosts, log>>

\* the step counter is a multiple of render_interval: sim.render() fires
\* every registered render callback
SimRender ==
    /\ pc = "render_check"
    /\ sim_step_counter % env.render_interval = 0 /\ is_rendering
    /\ sim_render_counter' = sim_render_counter + 1
    /\ IF "render_step" \in render_callbacks
         THEN _render_callback(RenderEvent(env))
         ELSE UNCHANGED counters
    /\ pc' = AfterSubstep(k)
    /\ UNCHANGED asset_cfg
    /\ UNCHANGED <<loopvars, env, sim_step_counter, render_mode, rtx_sensors,
                   physics_callbacks, render_callbacks, stage, open_envs,
                   ghosts, log>>

\* otherwise the pass ends without rendering
NoRender ==
    /\ pc = "render_check"
    /\ ~(sim_step_counter % env.render_interval = 0 /\ is_rendering)
    /\ pc' = AfterSubstep(k)
    /\ UNCHANGED asset_cfg
    /\ UNCHANGED <<loopvars, counters, env, simvars, stage, open_envs, ghosts,
                   log>>

----------------------------------------------------------------------------
(* Assertions after each env.step, close, and the enclosing loops *)

\* lines 163-182: the four assertions, in integer milliseconds
AssertionsHold ==
    /\ num_physics_steps = (i + 1) * env.decimation
    /\ physics_time = num_physics_steps * env.dt
    /\ num_render_steps = ((i + 1) * env.decimation) \div env.render_interval
    /\ render_time = num_render_steps * env.dt * env.render_interval

\* a failed assertion ends the sub-test at once, env.close() is not reached
CheckStep ==
    /\ pc = "check"
    /\ IF AssertionsHold
         THEN /\ i' = i + 1
              /\ pc' = IF i + 1 < NumSteps THEN "env_step" ELSE "close"
              /\ failures' = failures
         ELSE /\ i' = i
              /\ pc' = "next"
              /\ failures' = failures + 1
    /\ UNCHANGED asset_cfg
    /\ UNCHANGED <<env_idx, ri_idx, k, counters, env, simvars, stage, open_envs,
                   total_env_steps, completed, log>>

\* line 185: env.close() discards the environment together with its
\* simulation context and the callbacks registered on it; the carb setting
\* rtx_sensors outlives it
EnvClose ==
    /\ pc = "close"
    /\ env' = NoEnv
    /\ open_envs' = open_envs - 1
    /\ physics_callbacks' = {}
    /\ render_callbacks' = {}
    /\ render_mode' = "none"
    /\ completed' = completed + 1
    /\ log' = Append(log, "close")
    /\ pc' = "next"
    /\ UNCHANGED asset_cfg
    /\ UNCHANGED <<loopvars, counters, sim_step_counter, sim_render_counter,
                   rtx_sensors, stage, total_env_steps, failures>>

\* variant: the outer loop over the environment types is never advanced
LoopNext_inner_only ==
    /\ pc = "next"
    /\ IF ri_idx < Len(RenderIntervals)
         THEN ri_idx' = ri_idx + 1 /\ env_idx' = env_idx /\ pc' = "reset"
         ELSE ri_idx' = ri_idx /\ env_idx' = env_idx /\ pc' = "done"
    /\ UNCHANGED asset_cfg
    /\ UNCHANGED <<i, k, counters, env, simvars, stage, open_envs, ghosts, log>>

\* lines 120-122: the two for loops advance to the next sub-test
LoopNext ==
    /\ pc = "next"
    /\ IF ri_idx < Len(RenderIntervals)
         THEN ri_idx' = ri_idx + 1 /\ env_idx' = env_idx /\ pc' = "reset"
         ELSE IF env_idx < Len(EnvTypes)
           THEN ri_idx' = 1 /\ env_idx' = env_idx + 1 /\ pc' = "reset"
           ELSE ri_idx' = ri_idx /\ env_idx' = env_idx /\ pc' = "done"
    /\ UNCHANGED asset_cfg
    /\ UNCHANGED <<i, k, counters, env, simvars, stage, open_envs, ghosts, log>>

Next ==
    \/ ResetCounters
    \/ NewStage
    \/ CreateEnv
    \/ SetSetting
    \/ AssertRenderMode
    \/ AddPhysicsCallback
    \/ AddRenderCallback
    \/ EnvStepBegin
    \/ SimStep
    \/ SimRender
    \/ NoRender
    \/ CheckStep
    \/ EnvClose
    \/ LoopNext

Spec == Init /\ [][Next]_vars

\* the test is a sequential program: it keeps running until it returns
FairSpec == Spec /\ WF_vars(Next)

\* construction of configuration records, on its own
NextCfg == \E kwargs \in KwargSets : ConstructCfg(kwargs)

SpecCfg == Init /\ [][NextCfg]_vars

----------------------------------------------------------------------------
(* Properties *)

\* the states between a return of env.step and the assertions that follow it
AfterEnvStep == pc = "check"

\* the states in which the current sub-test's environment is being stepped
Stepping == pc \in {"env_step", "sim_step", "render_check", "check", "close"}

\* C1: after the (i+1)-th call to env.step of any sub-test, for i in 0..49,
\* the physics callback has fired exactly (i+1)*D times, D = 4, whatever the
\* render interval of the sub-test is.
C1_PhysicsStepCount ==
    AfterEnvStep =>
        /\ i \in 0..(NumSteps - 1)
        /\ env.decimation = 4
        /\ num_physics_steps = (i + 1) * 4

C1_Witness ==
    /\ AfterEnvStep
    /\ env.type = "direct_rl_env"
    /\ env.render_interval = 10
    /\ i = 49
    /\ num_physics_steps = 200

\* renders expected after n env steps when the render interval is 10: one more
\* after each of the env steps 3, 5, 8 and 10
RendersAtIntervalTen(n) == Cardinality({s \in {3, 5, 8, 10} : s <= n})

\* C2: after the (i+1)-th call to env.step the render callback has fired
\* ((i+1)*D) // R times: D/R per env step when R divides D, one every second
\* env step when R = 8, and after env steps 3, 5, 8, 10 when R = 10.
C2_RenderStepCount ==
    AfterEnvStep =>
        LET R == env.render_interval
            n == i + 1
        IN /\ R \in {1, 2, 4, 8, 10}
           /\ num_render_steps = (n * Decimation) \div R
           /\ R \in {1, 2, 4} => num_render_steps = n * (Decimation \div R)
           /\ R = 8 => num_render_steps = n \div 2
           /\ (R = 10 /\ n <= 10) => num_render_steps = RendersAtIntervalTen(n)

C2_Witness ==
    /\ AfterEnvStep
    /\ env.type = "manager_based_rl_env"
    /\ env.render_interval = 10
    /\ i = 2
    /\ num_render_steps = 1

\* C3: the accumulated physics time is num_physics_steps * dt, dt = 5 ms, after
\* every env.step; every physics callback received dt, so it is so in every
\* state.
C3_PhysicsTime ==
    /\ physics_time = num_physics_steps * Dt
    /\ AfterEnvStep => physics_time = (i + 1) * Decimation * Dt

C3_Witness ==
    /\ AfterEnvStep
    /\ env.render_interval = 8
    /\ i = 49
    /\ physics_time = 1000

\* C4: while a sub-test steps its environment the accumulated render time is
\* num_render_steps * dt * R: every render event carried R physics timesteps.
C4_RenderTime ==
    Stepping => render_time = num_render_steps * Dt * env.render_interval

C4_Witness ==
    /\ AfterEnvStep
    /\ env.render_interval = 10
    /\ i = 49
    /\ num_render_steps = 20
    /\ render_time = 1000

\* C5: right after the reset that opens a sub-test the four counters are zero
\* and no environment exists yet; after each env.step the counts are those of
\* the callbacks fired by this sub-test's environment alone.
C5_CountersResetPerSubtest ==
    /\ pc = "new_stage" =>
          /\ physics_time = 0 /\ render_time = 0
          /\ num_physics_steps = 0 /\ num_render_steps = 0
          /\ env = NoEnv /\ open_envs = 0
    /\ AfterEnvStep =>
          /\ num_physics_steps = sim_step_counter
          /\ num_render_steps = sim_render_counter

C5_Witness ==
    /\ pc = "new_stage"
    /\ completed = 1
    /\ total_env_steps = 50
    /\ sim_step_counter = 200
    /\ num_physics_steps = 0

C7_ClassTypeBinding ==
    asset_cfg # NoCfg =>
        LET base == Override(AssetBaseCfg, asset_cfg.kwargs)
        IN /\ "class_type" \notin DOMAIN asset_cfg.kwargs =>
                 asset_cfg.fields.class_type = "DeformableObject"
           /\ DOMAIN asset_cfg.fields = DOMAIN AssetBaseCfg \cup {"class_type"}
           /\ \A f \in DOMAIN asset_cfg.fields \ {"class_type"} :
                 asset_cfg.fields[f] = base[f]

C7_Witness ==
    /\ asset_cfg # NoCfg
    /\ DOMAIN asset_cfg.kwargs = {"prim_path", "debug_vis"}
    /\ asset_cfg.fields.class_type = "DeformableObject"
    /\ asset_cfg.fields.prim_path = 2

\* the operations of one sub-test that ran to its end, in order
SubtestOrder ==
    <<"reset", "new_stage", "create", "set_setting", "assert_mode",
      "add_physics_callback", "add_render_callback">>
    \o [n \in 1..50 |-> "step"] \o <<"close">>

\* C8: every sub-test runs reset, new stage, construction, callback
\* registration, exactly 50 env.step calls and close, in this order; with no
\* failed assertion an environment is closed before the next one is created,
\* so at most one is open; the test ends after 15 sub-tests and 750 env.step
\* calls.
C8_SubtestLifecycle ==
    /\ [](failures = 0 => open_envs <= 1)
    /\ [](pc = "create" /\ failures = 0 => open_envs = 0 /\ env = NoEnv)
    /\ [](pc = "next" /\ failures = 0 => log = SubtestOrder /\ open_envs = 0)
    /\ [](pc = "done" /\ failures = 0 =>
             total_env_steps = 750 /\ completed = 15 /\ stage = 15)
    /\ <>(pc = "done")

C8_Witness ==
    /\ pc = "done"
    /\ failures = 0
    /\ completed = 15
    /\ total_env_steps = 750

\* a step in which sim.step invoked _physics_callback
PhysicsCallbackInvoked ==
    /\ pc = "sim_step" /\ pc' = "render_check"
    /\ "physics_step" \in physics_callbacks

\* a step in which sim.render invoked _render_callback
RenderCallbackInvoked ==
    /\ pc = "render_check"
    /\ sim_render_counter' = sim_render_counter + 1
    /\ "render_step" \in render_callbacks

\* C9: one invocation of _physics_callback adds 1 to num_physics_steps and dt
\* to physics_time and leaves the render pair alone; one invocation of
\* _render_callback adds 1 to num_render_steps and the event's dt to
\* render_time and leaves the physics pair alone; no counter decreases within
\* a sub-test.
C9_CallbackFrame ==
    [][/\ PhysicsCallbackInvoked =>
             /\ num_physics_steps' = num_physics_steps + 1
             /\ physics_time' = physics_time + env.dt
             /\ UNCHANGED <<num_render_steps, render_time>>
       /\ RenderCallbackInvoked =>
             /\ num_render_steps' = num_render_steps + 1
             /\ render_time' = render_time + env.dt * env.render_interval
             /\ UNCHANGED <<num_physics_steps, physics_time>>
       /\ pc # "reset" =>
             /\ num_physics_steps' >= num_physics_steps
             /\ num_render_steps' >= num_render_steps
             /\ physics_time' >= physics_time
             /\ render_time' >= render_time]_vars

C9_Witness ==
    /\ pc = "sim_step"
    /\ env.render_interval = 10
    /\ num_physics_steps = 10
    /\ num_render_steps = 1
    /\ render_time = 50

\* C10: after every env.step, 0 <= num_physics_steps - R*num_render_steps < R,
\* so render_time <= physics_time < render_time + R*dt; with R > D nothing has
\* rendered after the first env.step, and with R = 1 the two counts are equal.
C10_RenderLag ==
    AfterEnvStep =>
        LET R == env.render_interval
            lag == num_physics_steps - R * num_render_steps
        IN /\ 0 <= lag /\ lag < R
           /\ render_time <= physics_time
           /\ physics_time - render_time < R * Dt
           /\ (R > Decimation /\ i = 0) => num_render_steps = 0
           /\ R = 1 => num_render_steps = num_physics_steps

C10_Witness ==
    /\ AfterEnvStep
    /\ env.render_interval = 8
    /\ i = 0
    /\ num_physics_steps = 4
    /\ num_render_steps = 0

====
